---- MODULE Spec2Model ----
(***************************************************************************)
(* Model of the Location coordinate type of Embed_Common: the altitude     *)
(* frame machine (set_alt_cm / get_alt_frame / get_alt_cm /                *)
(* change_alt_frame), the process-wide home / origin / terrain registry    *)
(* and the integer longitude helpers (wrap_longitude, diff_longitude);     *)
(* the flat-earth offsets and distances, the origin-relative constructor   *)
(* and vectors, and strncpy_noterm of Embed_Common.cpp.                    *)
(*                                                                         *)
(* Spec runs the altitude frame machine with the registry; SpecLon,        *)
(* SpecGeo, SpecOrigin, SpecReg, SpecRound and SpecStr each run one group  *)
(* of operations on the same variables, as do SpecHome (references of any  *)
(* frame), SpecWalk (repeated offsets), SpecSan (sanitize), SpecCmp        *)
(* (same_alt_as), SpecZero (is_zero) and SpecInterp                        *)
(* (linearly_interpolate_alt).                                             *)
(*                                                                         *)
(* int32_t values are TLA+ integers.  int64_t values do not fit a TLC      *)
(* integer, so they are kept as two limbs <<hi, lo>> of value              *)
(* hi * 2^16 + lo with 0 <= lo < 2^16.                                      *)
(***************************************************************************)
EXTENDS Integers, Sequences, FiniteSets, TLC

VARIABLES loc, s_home_set, s_home, s_origin_set, s_origin, s_terrain_provider,
          last, lon_call, geo_call, round_trip, reg_hist, str_call,
          ref_call, walk, san_call, cmp_call, zero_call, interp_call

vars == <<loc, s_home_set, s_home, s_origin_set, s_origin, s_terrain_provider,
          last, lon_call, geo_call, round_trip, reg_hist, str_call,
          ref_call, walk, san_call, cmp_call, zero_call, interp_call>>

\* the call records of SpecHome, SpecWalk, SpecSan, SpecCmp, SpecZero and
\* SpecInterp
later == <<ref_call, walk, san_call, cmp_call, zero_call, interp_call>>

\* the call records of the specifications other than Spec and SpecLon
aside == <<geo_call, round_trip, reg_hist, str_call, later>>

registry == <<s_home_set, s_home, s_origin_set, s_origin, s_terrain_provider>>

(***************************************************************************)
(* Bounds of the model.                                                    *)
(***************************************************************************)
\* terrain heights offered by providers, in eighths of a metre: 1..MaxTerrainE8
MaxTerrainE8 == 1
\* 64-bit longitude inputs: the multiples -MaxFold..MaxFold of 90 degrees ...
MaxFold == 12
\* ... and, around each, the neighbours at distance up to LonSlack
LonSlack == 1
\* offsets handed to offset, in whole kilometres: 1..MaxOfsKm
MaxOfsKm == 1
\* source strings of strncpy_noterm: every string of up to MaxStrLen characters
MaxStrLen == 4
\* offsets applied one after another to one Location: up to MaxHops
MaxHops == 2

(***************************************************************************)
(* Location: the bit-field group and the three int32 fields.               *)
(***************************************************************************)
AltFrame == {"ABSOLUTE", "ABOVE_HOME", "ABOVE_ORIGIN", "ABOVE_TERRAIN"}

FlagNames == {"relative_alt", "loiter_ccw", "terrain_alt", "origin_alt", "loiter_xtrack"}

definitely_zero ==
    [relative_alt |-> 0, loiter_ccw |-> 0, terrain_alt |-> 0, origin_alt |-> 0,
     loiter_xtrack |-> 0, alt |-> 0, lat |-> 0, lng |-> 0]

\* set_alt_cm that forgets to clear origin_alt
set_alt_cm_keeps_origin(l, alt_cm, frame) ==
    [l EXCEPT !.alt = alt_cm,
              !.relative_alt = IF frame \in {"ABOVE_HOME", "ABOVE_TERRAIN"} THEN 1 ELSE 0,
              !.terrain_alt  = IF frame = "ABOVE_TERRAIN" THEN 1 ELSE 0,
              !.origin_alt   = IF frame = "ABOVE_ORIGIN" THEN 1 ELSE l.origin_alt]

set_alt_cm(l, alt_cm, frame) ==
    [l EXCEPT !.alt = alt_cm,
              !.relative_alt = IF frame \in {"ABOVE_HOME", "ABOVE_TERRAIN"} THEN 1 ELSE 0,
              !.terrain_alt  = IF frame = "ABOVE_TERRAIN" THEN 1 ELSE 0,
              !.origin_alt   = IF frame = "ABOVE_ORIGIN" THEN 1 ELSE 0]

\* get_alt_frame that tests origin_alt before terrain_alt
get_alt_frame_origin_first(l) ==
    IF l.origin_alt = 1 THEN "ABOVE_ORIGIN"
    ELSE IF l.terrain_alt = 1 THEN "ABOVE_TERRAIN"
    ELSE IF l.relative_alt = 1 THEN "ABOVE_HOME"
    ELSE "ABSOLUTE"

get_alt_frame(l) ==
    IF l.terrain_alt = 1 THEN "ABOVE_TERRAIN"
    ELSE IF l.origin_alt = 1 THEN "ABOVE_ORIGIN"
    ELSE IF l.relative_alt = 1 THEN "ABOVE_HOME"
    ELSE "ABSOLUTE"

\* Location(latitude, longitude, alt_in_cm, frame)
Location(latitude, longitude, alt_in_cm, frame) ==
    set_alt_cm([definitely_zero EXCEPT !.lat = latitude, !.lng = longitude],
               alt_in_cm, frame)

(***************************************************************************)
(* Terrain provider: a function pointer, nullptr or a callback that        *)
(* answers (ok, height in metres).  Heights are multiples of 1/8 m, which  *)
(* a float holds exactly, as it does their product with 100.0f.            *)
(***************************************************************************)
nullptr == [installed |-> FALSE, ok |-> FALSE, height_e8 |-> 0]

Provider(ok, h8) == [installed |-> TRUE, ok |-> ok, height_e8 |-> h8]

\* int32_t(x / d) for a real quotient: truncation toward zero
TruncDiv(n, d) == IF n >= 0 THEN n \div d ELSE -((-n) \div d)

\* int32_t(terr_m * 100.0f) with terr_m = height_e8 / 8
TerrainCm(height_e8) == TruncDiv(height_e8 * 25, 2)

(***************************************************************************)
(* get_alt_cm.  The result is [ret, ret_alt_cm, calls]: ret_alt_cm is the  *)
(* caller's variable after the call (out0 before it), calls counts the     *)
(* invocations of the terrain provider.                                    *)
(***************************************************************************)
\* terrain query that ignores the provider's return value
terrain_lookup_unchecked(frame, desired_frame, provider) ==
    IF frame = "ABOVE_TERRAIN" \/ desired_frame = "ABOVE_TERRAIN"
    THEN IF ~provider.installed THEN [ok |-> FALSE, terr_cm |-> 0, calls |-> 0]
         ELSE [ok |-> TRUE,
               terr_cm |-> IF provider.ok THEN TerrainCm(provider.height_e8) ELSE 0,
               calls |-> 1]
    ELSE [ok |-> TRUE, terr_cm |-> 0, calls |-> 0]

\* terrain query answered from an earlier call's height, the provider not
\* called again
terrain_lookup_cached(frame, desired_frame, provider) ==
    IF frame = "ABOVE_TERRAIN" \/ desired_frame = "ABOVE_TERRAIN"
    THEN IF ~provider.installed THEN [ok |-> FALSE, terr_cm |-> 0, calls |-> 0]
         ELSE [ok |-> TRUE, terr_cm |-> TerrainCm(1), calls |-> 0]
    ELSE [ok |-> TRUE, terr_cm |-> 0, calls |-> 0]

\* the terrain query of get_alt_cm: [ok, terr_cm, calls]
terrain_lookup(frame, desired_frame, provider) ==
    IF frame = "ABOVE_TERRAIN" \/ desired_frame = "ABOVE_TERRAIN"
    THEN IF ~provider.installed THEN [ok |-> FALSE, terr_cm |-> 0, calls |-> 0]
         ELSE IF ~provider.ok THEN [ok |-> FALSE, terr_cm |-> 0, calls |-> 1]
         ELSE [ok |-> TRUE, terr_cm |-> TerrainCm(provider.height_e8), calls |-> 1]
    ELSE [ok |-> TRUE, terr_cm |-> 0, calls |-> 0]

\* first switch that adds origin's altitude in the ABOVE_HOME case
to_absolute_home_as_origin(l, frame, terr_cm) ==
    CASE frame = "ABSOLUTE"      -> [ok |-> TRUE, alt_abs_cm |-> l.alt]
      [] frame = "ABOVE_HOME"    ->
             IF ~s_home_set THEN [ok |-> FALSE, alt_abs_cm |-> 0]
             ELSE [ok |-> TRUE, alt_abs_cm |-> l.alt + s_origin.alt]
      [] frame = "ABOVE_ORIGIN"  ->
             IF ~s_origin_set THEN [ok |-> FALSE, alt_abs_cm |-> 0]
             ELSE [ok |-> TRUE, alt_abs_cm |-> l.alt + s_origin.alt]
      [] frame = "ABOVE_TERRAIN" -> [ok |-> TRUE, alt_abs_cm |-> l.alt + terr_cm]

\* the first switch of get_alt_cm, source frame to absolute: [ok, alt_abs_cm]
to_absolute(l, frame, terr_cm) ==
    CASE frame = "ABSOLUTE"      -> [ok |-> TRUE, alt_abs_cm |-> l.alt]
      [] frame = "ABOVE_HOME"    ->
             IF ~s_home_set THEN [ok |-> FALSE, alt_abs_cm |-> 0]
             ELSE [ok |-> TRUE, alt_abs_cm |-> l.alt + s_home.alt]
      [] frame = "ABOVE_ORIGIN"  ->
             IF ~s_origin_set THEN [ok |-> FALSE, alt_abs_cm |-> 0]
             ELSE [ok |-> TRUE, alt_abs_cm |-> l.alt + s_origin.alt]
      [] frame = "ABOVE_TERRAIN" -> [ok |-> TRUE, alt_abs_cm |-> l.alt + terr_cm]

\* second switch that stores the absolute altitude before testing the reference
from_absolute_writes_first(alt_abs_cm, desired_frame, terr_cm, out0) ==
    CASE desired_frame = "ABSOLUTE"      -> [ret |-> TRUE, ret_alt_cm |-> alt_abs_cm]
      [] desired_frame = "ABOVE_HOME"    ->
             IF ~s_home_set THEN [ret |-> FALSE, ret_alt_cm |-> alt_abs_cm]
             ELSE [ret |-> TRUE, ret_alt_cm |-> alt_abs_cm - s_home.alt]
      [] desired_frame = "ABOVE_ORIGIN"  ->
             IF ~s_origin_set THEN [ret |-> FALSE, ret_alt_cm |-> alt_abs_cm]
             ELSE [ret |-> TRUE, ret_alt_cm |-> alt_abs_cm - s_origin.alt]
      [] desired_frame = "ABOVE_TERRAIN" ->
             [ret |-> TRUE, ret_alt_cm |-> alt_abs_cm - terr_cm]

\* second switch that subtracts home's altitude in the ABOVE_ORIGIN case
from_absolute_origin_as_home(alt_abs_cm, desired_frame, terr_cm, out0) ==
    CASE desired_frame = "ABSOLUTE"      -> [ret |-> TRUE, ret_alt_cm |-> alt_abs_cm]
      [] desired_frame = "ABOVE_HOME"    ->
             IF ~s_home_set THEN [ret |-> FALSE, ret_alt_cm |-> out0]
             ELSE [ret |-> TRUE, ret_alt_cm |-> alt_abs_cm - s_home.alt]
      [] desired_frame = "ABOVE_ORIGIN"  ->
             IF ~s_origin_set THEN [ret |-> FALSE, ret_alt_cm |-> out0]
             ELSE [ret |-> TRUE, ret_alt_cm |-> alt_abs_cm - s_home.alt]
      [] desired_frame = "ABOVE_TERRAIN" ->
             [ret |-> TRUE, ret_alt_cm |-> alt_abs_cm - terr_cm]

\* the second switch of get_alt_cm, absolute to desired frame: [ret, ret_alt_cm]
from_absolute(alt_abs_cm, desired_frame, terr_cm, out0) ==
    CASE desired_frame = "ABSOLUTE"      -> [ret |-> TRUE, ret_alt_cm |-> alt_abs_cm]
      [] desired_frame = "ABOVE_HOME"    ->
             IF ~s_home_set THEN [ret |-> FALSE, ret_alt_cm |-> out0]
             ELSE [ret |-> TRUE, ret_alt_cm |-> alt_abs_cm - s_home.alt]
      [] desired_frame = "ABOVE_ORIGIN"  ->
             IF ~s_origin_set THEN [ret |-> FALSE, ret_alt_cm |-> out0]
             ELSE [ret |-> TRUE, ret_alt_cm |-> alt_abs_cm - s_origin.alt]
      [] desired_frame = "ABOVE_TERRAIN" ->
             [ret |-> TRUE, ret_alt_cm |-> alt_abs_cm - terr_cm]

\* get_alt_cm past its same-frame test: terrain query and the two switches
convert_alt(l, frame, desired_frame, out0, provider) ==
    LET t == terrain_lookup(frame, desired_frame, provider)
        a == to_absolute(l, frame, t.terr_cm)
        r == from_absolute(a.alt_abs_cm, desired_frame, t.terr_cm, out0)
    IN  IF ~t.ok \/ ~a.ok
        THEN [ret |-> FALSE, ret_alt_cm |-> out0, calls |-> t.calls]
        ELSE [ret |-> r.ret, ret_alt_cm |-> r.ret_alt_cm, calls |-> t.calls]

\* get_alt_cm without the same-frame test
get_alt_cm_no_shortcut(l, desired_frame, out0, provider) ==
    convert_alt(l, get_alt_frame(l), desired_frame, out0, provider)

\* get_alt_cm with the installed provider as a parameter
get_alt_cm_with(l, desired_frame, out0, provider) ==
    IF desired_frame = get_alt_frame(l)
    THEN [ret |-> TRUE, ret_alt_cm |-> l.alt, calls |-> 0]
    ELSE convert_alt(l, get_alt_frame(l), desired_frame, out0, provider)

get_alt_cm(l, desired_frame, out0) ==
    get_alt_cm_with(l, desired_frame, out0, s_terrain_provider)

\* change_alt_frame that sets the frame flags also when the conversion failed
change_alt_frame_always_sets(l, desired_frame) ==
    LET r == get_alt_cm(l, desired_frame, 0)
    IN  IF ~r.ret THEN [ret |-> FALSE, loc |-> set_alt_cm(l, l.alt, desired_frame),
                        calls |-> r.calls]
        ELSE [ret |-> TRUE, loc |-> set_alt_cm(l, r.ret_alt_cm, desired_frame),
              calls |-> r.calls]

\* change_alt_frame: [ret, loc, calls]; new_alt_cm is read only on success
change_alt_frame(l, desired_frame) ==
    LET r == get_alt_cm(l, desired_frame, 0)
    IN  IF ~r.ret THEN [ret |-> FALSE, loc |-> l, calls |-> r.calls]
        ELSE [ret |-> TRUE, loc |-> set_alt_cm(l, r.ret_alt_cm, desired_frame),
              calls |-> r.calls]

(***************************************************************************)
(* 64-bit integers as two limbs <<hi, lo>>, value hi * 2^16 + lo with      *)
(* 0 <= lo < 2^16, and the narrowing conversion to int32_t.                *)
(***************************************************************************)
Limb == 256 * 256

I64(n) == <<n \div Limb, n % Limb>>

I64Add(x, y) == <<x[1] + y[1] + ((x[2] + y[2]) \div Limb), (x[2] + y[2]) % Limb>>

I64Neg(x) == IF x[2] = 0 THEN <<-x[1], 0>> ELSE <<-x[1] - 1, Limb - x[2]>>

I64Sub(x, y) == I64Add(x, I64Neg(y))

I64Scale(x, k) == <<x[1] * k + ((x[2] * k) \div Limb), (x[2] * k) % Limb>>

I64Less(x, y) == x[1] < y[1] \/ (x[1] = y[1] /\ x[2] < y[2])

\* int32_t(x) of a 64-bit x: the low 32 bits, two's complement
Narrow32(x) ==
    LET h == x[1] % Limb
    IN  (IF h >= Limb \div 2 THEN h - Limb ELSE h) * Limb + x[2]

\* 1800000000: 180 degrees in units of 1e-7 degree
LonHalfTurn == 1800000000

\* 3600000000LL
LonFullTurn == I64Add(I64(LonHalfTurn), I64(LonHalfTurn))

\* wrap_longitude that folds 180 degrees itself onto -180 degrees
wrap_longitude_folds_half_turn(lon) ==
    IF ~I64Less(lon, I64(LonHalfTurn))
    THEN Narrow32(I64(Narrow32(I64Sub(lon, LonFullTurn))))
    ELSE IF I64Less(lon, I64(-LonHalfTurn))
    THEN Narrow32(I64(Narrow32(I64Add(lon, LonFullTurn))))
    ELSE Narrow32(lon)

wrap_longitude(lon) ==
    IF I64Less(I64(LonHalfTurn), lon)
    THEN Narrow32(I64(Narrow32(I64Sub(lon, LonFullTurn))))
    ELSE IF I64Less(lon, I64(-LonHalfTurn))
    THEN Narrow32(I64(Narrow32(I64Add(lon, LonFullTurn))))
    ELSE Narrow32(lon)

\* diff_longitude without its second fold
diff_fold_low_missing(dlon) == dlon

\* the second fold of diff_longitude, applied to the folded dlon
diff_fold_low(dlon) ==
    IF I64Less(dlon, I64(-LonHalfTurn)) THEN I64Add(dlon, LonFullTurn) ELSE dlon

\* diff_longitude subtracting in 32 bits on both paths
diff_longitude_in_32_bits(lon1, lon2) == Narrow32(I64Sub(I64(lon1), I64(lon2)))

diff_longitude(lon1, lon2) ==
    IF (lon1 < 0) = (lon2 < 0)
    THEN lon1 - lon2
    ELSE LET dlon == I64Sub(I64(lon1), I64(lon2))
             d1 == IF I64Less(I64(LonHalfTurn), dlon) THEN I64Sub(dlon, LonFullTurn)
                   ELSE dlon
         IN  Narrow32(diff_fold_low(d1))

(***************************************************************************)
(* Flat-earth geometry.  ftype values are fixed-point integers: offsets    *)
(* and distances in centimetres, cosines in 1e-4, angles in 1e-4 radian.   *)
(* Every product is arranged to stay inside 32 bits.                       *)
(***************************************************************************)
Abs(n) == IF n < 0 THEN -n ELSE n

Sign(n) == IF n < 0 THEN -1 ELSE 1

MAX(a, b) == IF a > b THEN a ELSE b

\* x * num / den truncated toward zero, for 0 < num, den <= 20000
MulFrac(x, num, den) ==
    Sign(x) * ((Abs(x) \div den) * num + ((Abs(x) % den) * num) \div den)

\* ofs (cm) * 0.01 * LATLON_TO_M_INV truncated toward zero, in 1e-7 degree:
\* LATLON_TO_M_INV = 89.83205, so 1 cm is 0.8983205 units
ToLatLon(ofs_cm) ==
    Sign(ofs_cm) * ((Abs(ofs_cm) * 8983 + (Abs(ofs_cm) * 205) \div 1000) \div 10000)

\* units (1e-7 degree) * LATLON_TO_CM, in cm: LATLON_TO_M = 0.011132 m
ToCm(units) == MulFrac(units, 11132, 10000)

\* lat_e7 * (1.0e-7f * DEG_TO_RAD) in 1e-4 radian: 1e-4 rad is 57296 units
radians_e7(lat_e7) == TruncDiv(lat_e7, 57296)

\* cosF(x), x in 1e-4 radian with |x| <= 15800, result in 1e-4: the series
\* 1 - x^2/2 + x^4/24 - x^6/720 + x^8/40320
cosF(x) ==
    LET x2 == (x * x) \div 10000
        x4 == (x2 * x2) \div 10000
        x6 == (x4 * x2) \div 10000
        x8 == ((x6 \div 10) * x2) \div 1000
    IN  10000 - (x2 \div 2) + (x4 \div 24) - (x6 \div 720) + (x8 \div 40320)

\* longitude_scale, in 1e-4: never below 0.01
longitude_scale(lat_e7) == MAX(cosF(radians_e7(lat_e7)), 100)

RECURSIVE SqrtIn(_, _, _)
\* the s in lo..hi-1 with s*s <= n < (s+1)*(s+1), given lo*lo <= n < hi*hi
SqrtIn(n, lo, hi) ==
    IF hi - lo <= 1 THEN lo
    ELSE LET mid == (lo + hi) \div 2
         IN  IF mid * mid <= n THEN SqrtIn(n, mid, hi) ELSE SqrtIn(n, lo, mid)

RECURSIVE NormScale(_, _)
\* the least power of two k (from k up) with m / k below 2^15
NormScale(m, k) == IF m \div k < 32768 THEN k ELSE NormScale(m, 2 * k)

\* norm(x, y) = sqrt(x*x + y*y), computed on 15 significant bits
norm(x, y) ==
    LET k == NormScale(MAX(Abs(x), Abs(y)), 1)
        a == Abs(x) \div k
        b == Abs(y) \div k
    IN  SqrtIn(a * a + b * b, 0, 46341) * k

limit_lattitude(lat_e7) ==
    IF lat_e7 > 900000000 THEN 1800000000 - lat_e7
    ELSE IF lat_e7 < -900000000 THEN -(1800000000 + lat_e7)
    ELSE lat_e7

\* dlat scaled by LOCATION_SCALING_FACTOR in place of its inverse
offset_dlat_by_factor(ofs_north) == TruncDiv(ToCm(ofs_north), 10000)

\* const int32_t dlat = ofs_north * LOCATION_SCALING_FACTOR_INV
offset_dlat(ofs_north) == ToLatLon(ofs_north)

\* const int64_t dlng = (ofs_east * LOCATION_SCALING_FACTOR_INV) /
\*                      longitude_scale(lat_io + dlat/2)
offset_dlng(lat_io, dlat, ofs_east) ==
    LET scale == longitude_scale(lat_io + TruncDiv(dlat, 2))
        east == ToLatLon(ofs_east)
    IN  I64(Sign(east) * ((Abs(east) \div scale) * 10000
                          + ((Abs(east) % scale) * 10000) \div scale))

\* offset_latlng with the north and the east offset taken for one another
offset_latlng_swapped(lat_io, lng_io, ofs_north, ofs_east) ==
    LET dlat == offset_dlat(ofs_east)
        dlng == offset_dlng(lat_io, dlat, ofs_north)
    IN  <<limit_lattitude(lat_io + dlat), wrap_longitude(I64Add(dlng, I64(lng_io)))>>

\* offset_latlng: <<lat_io, lng_io>> after the call; offsets in cm
offset_latlng(lat_io, lng_io, ofs_north, ofs_east) ==
    LET dlat == offset_dlat(ofs_north)
        dlng == offset_dlng(lat_io, dlat, ofs_east)
    IN  <<limit_lattitude(lat_io + dlat), wrap_longitude(I64Add(dlng, I64(lng_io)))>>

offset(l, ofs_north, ofs_east) ==
    LET ll == offset_latlng(l.lat, l.lng, ofs_north, ofs_east)
    IN  [l EXCEPT !.lat = ll[1], !.lng = ll[2]]

\* get_distance with the longitude scale taken at this location's latitude
get_distance_own_lat(l, loc2) ==
    LET dlat == loc2.lat - l.lat
        dlng == MulFrac(diff_longitude(loc2.lng, l.lng), longitude_scale(l.lat), 10000)
    IN  ToCm(norm(dlat, dlng))

\* get_distance, in cm
get_distance(l, loc2) ==
    LET dlat == loc2.lat - l.lat
        dlng == MulFrac(diff_longitude(loc2.lng, l.lng),
                        longitude_scale(TruncDiv(l.lat + loc2.lat, 2)), 10000)
    IN  ToCm(norm(dlat, dlng))

(***************************************************************************)
(* Origin-relative construction and vectors.  A vector is <<x, y, z>> in   *)
(* cm, a 2-vector <<x, y>>; the z of a constructor argument is in halves   *)
(* of a cm so that int32_t(z) truncates.                                   *)
(***************************************************************************)
\* the constructor taking s_origin whether or not an origin is set
LocationNEU_ignores_origin_set(ekf_offset_neu, frame) ==
    LET l0 == set_alt_cm(definitely_zero, TruncDiv(ekf_offset_neu[3], 2), frame)
    IN  offset([l0 EXCEPT !.lat = s_origin.lat, !.lng = s_origin.lng],
               ekf_offset_neu[1], ekf_offset_neu[2])

\* Location(const Vector3f &ekf_offset_neu, AltFrame frame)
LocationNEU(ekf_offset_neu, frame) ==
    LET l0 == set_alt_cm(definitely_zero, TruncDiv(ekf_offset_neu[3], 2), frame)
    IN  IF s_origin_set
        THEN offset([l0 EXCEPT !.lat = s_origin.lat, !.lng = s_origin.lng],
                    ekf_offset_neu[1], ekf_offset_neu[2])
        ELSE l0

\* get_vector_xy_from_origin_NE_cm: [ret, vec], vec the caller's vector after
\* the call
get_vector_xy_from_origin_NE_cm(l, vec_ne) ==
    IF ~s_origin_set THEN [ret |-> FALSE, vec |-> vec_ne]
    ELSE [ret |-> TRUE,
          vec |-> <<ToCm(l.lat - s_origin.lat),
                    ToCm(MulFrac(diff_longitude(l.lng, s_origin.lng),
                                 longitude_scale(TruncDiv(l.lat + s_origin.lat, 2)),
                                 10000))>>]

\* the NEU accessor storing z before it asks for the horizontal part
get_vector_from_origin_NEU_cm_z_first(l, vec_neu) ==
    LET a == get_alt_cm(l, "ABOVE_ORIGIN", 0)
        xy == get_vector_xy_from_origin_NE_cm(l, <<vec_neu[1], vec_neu[2]>>)
    IN  IF ~a.ret THEN [ret |-> FALSE, vec |-> vec_neu]
        ELSE [ret |-> xy.ret, vec |-> <<xy.vec[1], xy.vec[2], a.ret_alt_cm>>]

\* get_vector_from_origin_NEU_cm: [ret, vec]
get_vector_from_origin_NEU_cm(l, vec_neu) ==
    LET a == get_alt_cm(l, "ABOVE_ORIGIN", 0)
        xy == get_vector_xy_from_origin_NE_cm(l, <<vec_neu[1], vec_neu[2]>>)
    IN  IF ~a.ret THEN [ret |-> FALSE, vec |-> vec_neu]
        ELSE IF ~xy.ret THEN [ret |-> FALSE, vec |-> <<xy.vec[1], xy.vec[2], vec_neu[3]>>]
        ELSE [ret |-> TRUE, vec |-> <<xy.vec[1], xy.vec[2], a.ret_alt_cm>>]

(***************************************************************************)
(* sanitize.  The result is [ret, loc, conv_ret, conv_alt]: loc is the     *)
(* Location after the call, conv_ret and conv_alt are what                 *)
(* defaultLoc.get_alt_cm(get_alt_frame(), alt_cm) returned and stored.     *)
(***************************************************************************)
check_lat(lat) == lat >= -900000000 /\ lat <= 900000000

check_lng(lng) == lng >= -1800000000 /\ lng <= 1800000000

check_latlng(l) == check_lat(l.lat) /\ check_lng(l.lng)

sanitize(l, defaultLoc) ==
    LET zero_ll == l.lat = 0 /\ l.lng = 0
        l1 == IF zero_ll THEN [l EXCEPT !.lat = defaultLoc.lat, !.lng = defaultLoc.lng]
              ELSE l
        conv == get_alt_cm(defaultLoc, get_alt_frame(l1), 0)
        alt_taken == l1.alt = 0 /\ l1.relative_alt = 1 /\ conv.ret
        l2 == IF alt_taken THEN [l1 EXCEPT !.alt = conv.ret_alt_cm] ELSE l1
        bad_ll == ~check_latlng(l2)
        l3 == IF bad_ll THEN [l2 EXCEPT !.lat = defaultLoc.lat, !.lng = defaultLoc.lng]
              ELSE l2
    IN  [ret |-> zero_ll \/ alt_taken \/ bad_ll, loc |-> l3,
         conv_ret |-> conv.ret, conv_alt |-> conv.ret_alt_cm]

(***************************************************************************)
(* same_alt_as.                                                            *)
(***************************************************************************)
\* FLT_EPSILON, 1.19e-7, in units of 1e-9
FLT_EPSILON == 119

\* same_alt_as comparing the stored altitudes whatever the frames
same_alt_as_stored_only(l, loc2) == l.alt = loc2.alt

\* same_alt_as; diff_m = (a1 - a2) * 0.01f is 10000000 units of 1e-9 for each
\* centimetre, so fabsF(diff_m) < FLT_EPSILON compares the centimetres with
\* FLT_EPSILON rounded up to whole centimetres
same_alt_as(l, loc2) ==
    IF get_alt_frame(l) = get_alt_frame(loc2) THEN l.alt = loc2.alt
    ELSE LET r1 == get_alt_cm(l, "ABSOLUTE", 0)
             r2 == get_alt_cm(loc2, "ABSOLUTE", 0)
         IN  IF ~r1.ret \/ ~r2.ret THEN FALSE
             ELSE Abs(r1.ret_alt_cm - r2.ret_alt_cm)
                      < (FLT_EPSILON + 9999999) \div 10000000

(***************************************************************************)
(* is_zero, zero, initialised.  Every constructor clears the whole object  *)
(* first, so the bytes memcmp compares beyond the named fields are zero in *)
(* both operands and the comparison is that of the eight fields.           *)
(***************************************************************************)
\* is_zero comparing the position and the altitude only
is_zero_skips_flags(l) == l.lat = 0 /\ l.lng = 0 /\ l.alt = 0

\* memcmp(this, &definitely_zero, sizeof(*this)) == 0
is_zero(l) == \A f \in DOMAIN definitely_zero : l[f] = definitely_zero[f]

\* memset(this, 0, sizeof(*this))
zero(l) == [f \in DOMAIN l |-> 0]

initialised(l) == l.lat # 0 \/ l.lng # 0 \/ l.alt # 0

(***************************************************************************)
(* linearly_interpolate_alt.  Vectors are <<north, east>> in cm, a path    *)
(* proportion is a fixed-point number in 1e-4 (10000 is 1.0f).             *)
(***************************************************************************)
\* get_distance_NE, in cm
get_distance_NE(l, loc2) ==
    <<ToCm(loc2.lat - l.lat),
      MulFrac(ToCm(diff_longitude(loc2.lng, l.lng)),
              longitude_scale(TruncDiv(loc2.lat + l.lat, 2)), 10000)>>

\* num / den in 1e-4 truncated toward zero, den > 0: the remainder's share is
\* taken on 15 significant bits of den
Quotient(num, den) ==
    LET k == NormScale(den, 1)
    IN  Sign(num) * ((Abs(num) \div den) * 10000
                     + (((Abs(num) % den) \div k) * 10000) \div (den \div k))

\* line_path_proportion: dsq is in cm^2, where 0.001f m^2 is 10
line_path_proportion(l, p1, p2) ==
    LET v12 == get_distance_NE(p1, p2)
        v1s == get_distance_NE(p1, l)
        dsq == v12[1] * v12[1] + v12[2] * v12[2]
    IN  IF dsq < 10 THEN 10000
        ELSE Quotient(v12[1] * v1s[1] + v12[2] * v1s[2], dsq)

constrain_float(amt, low, high) ==
    IF amt < low THEN low ELSE IF amt > high THEN high ELSE amt

\* linearly_interpolate_alt without the clamp of the path proportion
linearly_interpolate_alt_unclamped(l, p1, p2) ==
    LET t == line_path_proportion(l, p1, p2)
    IN  set_alt_cm(l, p1.alt + TruncDiv((p2.alt - p1.alt) * t, 10000), get_alt_frame(p2))

\* linearly_interpolate_alt: the Location after the call
linearly_interpolate_alt(l, p1, p2) ==
    LET t == constrain_float(line_path_proportion(l, p1, p2), 0, 10000)
    IN  set_alt_cm(l, p1.alt + TruncDiv((p2.alt - p1.alt) * t, 10000), get_alt_frame(p2))

(***************************************************************************)
(* Bounded string copy.  A C string is the sequence of its characters      *)
(* (codes above 0) followed in memory by the terminator 0; a buffer is a   *)
(* sequence of bytes.                                                      *)
(***************************************************************************)
\* the bytes of a C string in memory
CString(chars) == chars \o <<0>>

RECURSIVE apc_strnlen_from(_, _, _)
\* the scan of apc_strnlen from index i (0-based), s a non-null string
apc_strnlen_from(s, maxlen, i) ==
    IF i < maxlen /\ s[i + 1] # 0 THEN apc_strnlen_from(s, maxlen, i + 1) ELSE i

apc_strnlen(s, maxlen) == apc_strnlen_from(s, maxlen, 0)

\* strncpy_noterm: [ret, dest, to_copy]; dest has room for n bytes
strncpy_noterm(dest, src, n) ==
    LET len == apc_strnlen(src, n)
        to_copy == IF len < n THEN len + 1 ELSE len
    IN  [ret |-> len,
         dest |-> [i \in 1..Len(dest) |-> IF i <= to_copy THEN src[i] ELSE dest[i]],
         to_copy |-> to_copy]

(***************************************************************************)
(* Inputs.                                                                 *)
(***************************************************************************)
LocAlts == {0, 2000}

LatLngs == {<<-338570000, 1512150000>>}

\* prior contents of a caller's output variable
OutInit == {-1}

\* values handed to set_home and to set_origin
HomeLocations == {Location(-338570000, 1512150000, 10000, "ABSOLUTE")}

OriginLocations == {Location(-338520000, 1512100000, 8000, "ABSOLUTE")}

Providers ==
    {nullptr} \cup {Provider(FALSE, 0)} \cup {Provider(TRUE, h) : h \in 1..MaxTerrainE8}

NoCall == [op |-> "none", desired |-> "ABSOLUTE", frame |-> "ABSOLUTE", arg |-> 0,
           ret |-> FALSE,
           out_before |-> 0, out_after |-> 0, calls |-> 0]

\* 64-bit arguments of wrap_longitude
LonInputs ==
    {I64Add(I64Scale(I64(LonHalfTurn \div 2), k), I64(d)) :
        k \in -MaxFold..MaxFold, d \in -LonSlack..LonSlack}

\* 32-bit arguments of diff_longitude: around -180, 0 and 180 degrees and the
\* two ends of int32_t
Lon32Inputs ==
    {c + d : c \in {-LonHalfTurn, 0, LonHalfTurn}, d \in -LonSlack..LonSlack}
    \cup {-2147483647 - 1, 2147483647}

NoLon == [op |-> "none", lon |-> <<0, 0>>, lon1 |-> 0, lon2 |-> 0, r |-> 0, r2 |-> 0]

\* points handed to the geometry operations: Sydney, the equator, 60 degrees
\* north, next to and at the poles; next to and at the antimeridian
GeoLats == {-338570000, 0, 600000000, 899990000, 900000000, -900000000}

GeoLngs == {1512150000, 1799990000, 1800000000, -1800000000}

\* the second point of a distance
OtherLocations ==
    {Location(-338520000, 1512100000, 5000, "ABOVE_TERRAIN"),
     Location(-338570000, 1512150000, 0, "ABSOLUTE"),
     Location(0, -1799990000, -300, "ABOVE_ORIGIN")}

\* north and east offsets in cm: none, 1 cm, 1 m and whole kilometres
OffsetsCm == {0, 1, 100} \cup {100000 * k : k \in 1..MaxOfsKm}

\* the z of a constructor's offset vector, in halves of a cm
EkfUps == {-3, 5}

\* prior contents of a caller's output vector
VecInit == {<<-1, -2, -3>>}

NoGeo == [op |-> "none", before |-> definitely_zero, north |-> 0, east |-> 0,
          other |-> definitely_zero, d1 |-> 0, d2 |-> 0,
          z |-> 0, frame |-> "ABSOLUTE", origin_set |-> FALSE,
          ret |-> FALSE, alt_ok |-> FALSE, vec0 |-> <<0, 0, 0>>, vec |-> <<0, 0, 0>>]

\* a round trip of change_alt_frame: the frame and altitude it started from,
\* the frame it went to, and what the two calls returned and left
NoRound == [phase |-> "idle", f1 |-> "ABSOLUTE", a |-> 0, f2 |-> "ABSOLUTE",
            ret1 |-> FALSE, alt_there |-> 0, ret2 |-> FALSE,
            alt_back |-> 0, frame_back |-> "ABSOLUTE"]

\* the most recent home and origin operations and the Locations they were given
NoHist == [home_op |-> "none", home_arg |-> definitely_zero,
           origin_op |-> "none", origin_arg |-> definitely_zero]

\* char buf[8] of the documented example
BufSize == 8

\* a buffer's prior contents: '#' in every byte
FreshBuf == [i \in 1..BufSize |-> 35]

\* "hello_world"
HelloWorld == <<104, 101, 108, 108, 111, 95, 119, 111, 114, 108, 100>>

\* source strings: all of up to MaxStrLen characters over 'a', 'b', and the
\* documented example
StrSources ==
    UNION {[1..k -> {97, 98}] : k \in 0..MaxStrLen} \cup {HelloWorld}

NoStr == [op |-> "none", src |-> <<>>, n |-> 0, ret |-> 0, dest |-> FreshBuf, to_copy |-> 0]

\* where a walk starts: lat in [-900000000, 900000000] and lng in
\* [-1800000000, 1800000000), next to and at the ends
WalkLats == {-338570000, 0, 899990000, -900000000}

WalkLngs == {1512150000, 1799999911, -1800000000}

\* the offsets of a walk, in cm: those of OffsetsCm and a kilometre back
WalkOffsetsCm == OffsetsCm \cup {-100000}

\* lat/lng handed to a Location about to be sanitized: both zero, Sydney,
\* the upper end of check_lng, and beyond the ends of check_lat and check_lng
SanLatLngs ==
    {<<0, 0>>, <<-338570000, 1512150000>>, <<100, 1800000000>>,
     <<900000001, 1512150000>>, <<0, -1800000001>>}

\* the defaults handed to sanitize
SanDefaults ==
    {Location(-338520000, 1512100000, 5000, "ABSOLUTE"),
     Location(-338520000, 1512100000, 0, "ABOVE_HOME"),
     definitely_zero}

\* the other Location of a comparison: 12000 cm absolute once home is at
\* 10000 cm and origin at 8000 cm, and an altitude above terrain
CmpLocations ==
    {Location(-338520000, 1512100000, 2000, "ABOVE_HOME"),
     Location(-338520000, 1512100000, 4000, "ABOVE_ORIGIN"),
     Location(-338520000, 1512100000, 12000, "ABSOLUTE"),
     Location(-338520000, 1512100000, 2000, "ABOVE_TERRAIN")}

\* lat/lng of a Location about to be tested for zero: none, one or both zero
ZeroLatLngs == {<<0, 0>>, <<0, 1512150000>>, <<-338570000, 0>>}

\* the ends of an interpolated leg: p1 at Sydney; p2 some ten metres to the
\* north-east and higher, at p1's own lat/lng, or to the north and lower
InterpStarts ==
    {Location(-338570000, 1512150000, 1000, "ABOVE_HOME"),
     Location(-338570000, 1512150000, 0, "ABSOLUTE")}

InterpEnds ==
    {Location(-338569100, 1512151000, 3000, "ABOVE_TERRAIN"),
     Location(-338570000, 1512150000, 3000, "ABOVE_ORIGIN"),
     Location(-338569100, 1512150000, -500, "ABSOLUTE")}

\* where the interpolated Location lies, in 1e-7 degree from p1: behind p1,
\* abeam, along the leg, at p2 and beyond
InterpLatSteps == {-900, 0, 450, 900, 1800}

InterpLngSteps == {-1000, 0, 500, 1000}

\* no conversion against a reference made yet
NoRef == [op |-> "none", frame |-> "ABSOLUTE", a |-> 0, ret |-> FALSE, out |-> 0,
          ref_set |-> FALSE, ref_ret |-> FALSE, ref_abs |-> 0]

\* no walk begun
NoWalk == [op |-> "none", hops |-> 0]

\* no sanitize call made yet
NoSan == [op |-> "none", before |-> definitely_zero, default |-> definitely_zero,
          ret |-> FALSE, conv_ret |-> FALSE, conv_alt |-> 0]

\* no comparison made yet
NoCmp == [op |-> "none", other |-> definitely_zero, ret |-> FALSE, swapped |-> FALSE,
          ok1 |-> FALSE, abs1 |-> 0, ok2 |-> FALSE, abs2 |-> 0]

\* no zero test made yet; made tells how the Location came to its value, at
\* first by the default constructor
NoZero == [op |-> "none", made |-> "default", ret |-> FALSE, initialised |-> FALSE]

\* no interpolation made yet
NoInterp == [op |-> "none", before |-> definitely_zero, p1 |-> definitely_zero,
             p2 |-> definitely_zero, t |-> 0]

Init ==
    /\ loc = definitely_zero
    /\ s_home_set = FALSE
    /\ s_home = definitely_zero
    /\ s_origin_set = FALSE
    /\ s_origin = definitely_zero
    /\ s_terrain_provider = nullptr
    /\ last = NoCall
    /\ lon_call = NoLon
    /\ geo_call = NoGeo
    /\ round_trip = NoRound
    /\ reg_hist = NoHist
    /\ str_call = NoStr
    /\ ref_call = NoRef
    /\ walk = NoWalk
    /\ san_call = NoSan
    /\ cmp_call = NoCmp
    /\ zero_call = NoZero
    /\ interp_call = NoInterp

(***************************************************************************)
(* Registry operations.                                                    *)
(***************************************************************************)
SetHome ==
    \E home \in HomeLocations :
        /\ s_home' = home
        /\ s_home_set' = TRUE
        /\ last' = NoCall
        /\ UNCHANGED <<loc, s_origin_set, s_origin, s_terrain_provider, lon_call, aside>>

ClearHome ==
    /\ s_home_set' = FALSE
    /\ s_home' = definitely_zero
    /\ last' = NoCall
    /\ UNCHANGED <<loc, s_origin_set, s_origin, s_terrain_provider, lon_call, aside>>

SetOrigin ==
    \E origin \in OriginLocations :
        /\ s_origin' = origin
        /\ s_origin_set' = TRUE
        /\ last' = NoCall
        /\ UNCHANGED <<loc, s_home_set, s_home, s_terrain_provider, lon_call, aside>>

ClearOrigin ==
    /\ s_origin_set' = FALSE
    /\ s_origin' = definitely_zero
    /\ last' = NoCall
    /\ UNCHANGED <<loc, s_home_set, s_home, s_terrain_provider, lon_call, aside>>

SetTerrainProvider ==
    \E provider \in Providers :
        /\ s_terrain_provider' = provider
        /\ last' = NoCall
        /\ UNCHANGED <<loc, s_home_set, s_home, s_origin_set, s_origin, lon_call, aside>>

(***************************************************************************)
(* Operations on the Location under test.                                  *)
(***************************************************************************)
Construct ==
    \E ll \in LatLngs, alt_in_cm \in LocAlts, frame \in AltFrame :
        /\ loc' = Location(ll[1], ll[2], alt_in_cm, frame)
        /\ last' = NoCall
        /\ UNCHANGED <<registry, lon_call, aside>>

\* the bit-fields are public members: a caller assigns one directly
WriteFlag ==
    \E f \in FlagNames, bit \in 0..1 :
        /\ loc' = [loc EXCEPT ![f] = bit]
        /\ last' = NoCall
        /\ UNCHANGED <<registry, lon_call, aside>>

SetAltCm ==
    \E alt_cm \in LocAlts, frame \in AltFrame :
        /\ loc' = set_alt_cm(loc, alt_cm, frame)
        /\ last' = [NoCall EXCEPT !.op = "set_alt_cm", !.desired = frame,
                                  !.frame = get_alt_frame(loc), !.arg = alt_cm]
        /\ UNCHANGED <<registry, lon_call, aside>>

GetAltCm ==
    \E desired_frame \in AltFrame, out0 \in OutInit :
        LET r == get_alt_cm(loc, desired_frame, out0)
        IN  /\ last' = [op |-> "get_alt_cm", desired |-> desired_frame,
                        frame |-> get_alt_frame(loc), arg |-> 0,
                        ret |-> r.ret, out_before |-> out0,
                        out_after |-> r.ret_alt_cm, calls |-> r.calls]
            /\ UNCHANGED <<loc, registry, lon_call, aside>>

GetAltFrame ==
    /\ last' = [NoCall EXCEPT !.op = "get_alt_frame", !.frame = get_alt_frame(loc)]
    /\ UNCHANGED <<loc, registry, lon_call, aside>>

\* A conversion is committed only onto an altitude a caller assigned: without
\* this cap repeated conversions under a changing registry grow alt for ever.
ChangeAltFrame ==
    \E desired_frame \in AltFrame :
        LET r == change_alt_frame(loc, desired_frame)
        IN  /\ loc.alt \in LocAlts
            /\ loc' = r.loc
            /\ last' = [NoCall EXCEPT !.op = "change_alt_frame", !.desired = desired_frame,
                                      !.frame = get_alt_frame(loc),
                                      !.ret = r.ret, !.calls = r.calls]
            /\ UNCHANGED <<registry, lon_call, aside>>

Next ==
    \/ SetHome
    \/ ClearHome
    \/ SetOrigin
    \/ ClearOrigin
    \/ SetTerrainProvider
    \/ Construct
    \/ WriteFlag
    \/ SetAltCm
    \/ GetAltCm
    \/ GetAltFrame
    \/ ChangeAltFrame

Spec == Init /\ [][Next]_vars

(***************************************************************************)
(* The longitude helpers are static and pure: their own specification      *)
(* applies them to drawn arguments.                                        *)
(***************************************************************************)
WrapLongitude ==
    \E lon \in LonInputs :
        /\ lon_call' = [NoLon EXCEPT !.op = "wrap_longitude", !.lon = lon,
                                     !.r = wrap_longitude(lon),
                                     !.r2 = wrap_longitude(I64(wrap_longitude(lon)))]
        /\ UNCHANGED <<loc, registry, last, aside>>

DiffLongitude ==
    \E lon1 \in Lon32Inputs, lon2 \in Lon32Inputs :
        /\ lon_call' = [NoLon EXCEPT !.op = "diff_longitude", !.lon1 = lon1, !.lon2 = lon2,
                                     !.r = diff_longitude(lon1, lon2),
                                     !.r2 = diff_longitude(lon2, lon1)]
        /\ UNCHANGED <<loc, registry, last, aside>>

NextLon ==
    \/ WrapLongitude
    \/ DiffLongitude

SpecLon == Init /\ [][NextLon]_vars

(***************************************************************************)
(* Offsets and distances: their own specification moves a constructed      *)
(* Location and measures from where it started, as the repository's test   *)
(* does.                                                                   *)
(***************************************************************************)
GeoConstruct ==
    \E latitude \in GeoLats, longitude \in GeoLngs, alt_in_cm \in LocAlts, frame \in AltFrame :
        /\ loc' = Location(latitude, longitude, alt_in_cm, frame)
        /\ geo_call' = NoGeo
        /\ UNCHANGED <<registry, last, lon_call, round_trip, reg_hist, str_call, later>>

\* L3 = L1; L3.offset(north, east)
Offset ==
    \E ofs_north \in OffsetsCm, ofs_east \in OffsetsCm :
        /\ geo_call.op = "none"
        /\ loc' = offset(loc, ofs_north, ofs_east)
        /\ geo_call' = [NoGeo EXCEPT !.op = "offset", !.before = loc,
                                     !.north = ofs_north, !.east = ofs_east]
        /\ UNCHANGED <<registry, last, lon_call, round_trip, reg_hist, str_call, later>>

\* L1.get_distance(L3) after the offset
OffsetDistance ==
    /\ geo_call.op = "offset"
    /\ geo_call' = [geo_call EXCEPT !.op = "offset_distance",
                                    !.d1 = get_distance(geo_call.before, loc)]
    /\ UNCHANGED <<loc, registry, last, lon_call, round_trip, reg_hist, str_call,
                           later>>

\* a.get_distance(b) and b.get_distance(a)
GetDistance ==
    \E loc2 \in OtherLocations :
        /\ geo_call.op = "none"
        /\ geo_call' = [NoGeo EXCEPT !.op = "get_distance", !.other = loc2,
                                     !.d1 = get_distance(loc, loc2),
                                     !.d2 = get_distance(loc2, loc)]
        /\ UNCHANGED <<loc, registry, last, lon_call, round_trip, reg_hist, str_call,
                           later>>

NextGeo ==
    \/ GeoConstruct
    \/ Offset
    \/ OffsetDistance
    \/ GetDistance

SpecGeo == Init /\ [][NextGeo]_vars

(***************************************************************************)
(* Origin-relative construction and vectors: their own specification runs  *)
(* them under every registry state.  A record keeps what the registry was  *)
(* at the call, for the registry changes afterwards.                       *)
(***************************************************************************)
ConstructNEU ==
    \E x \in OffsetsCm, y \in OffsetsCm, z \in EkfUps, frame \in AltFrame :
        /\ loc' = LocationNEU(<<x, y, z>>, frame)
        /\ geo_call' = [NoGeo EXCEPT !.op = "neu_ctor", !.north = x, !.east = y, !.z = z,
                                     !.frame = frame, !.origin_set = s_origin_set,
                                     !.other = s_origin]
        /\ UNCHANGED <<registry, last, lon_call, round_trip, reg_hist, str_call, later>>

GetVectorXY ==
    \E v \in VecInit :
        LET r == get_vector_xy_from_origin_NE_cm(loc, <<v[1], v[2]>>)
        IN  /\ geo_call' = [NoGeo EXCEPT !.op = "get_vector_xy", !.origin_set = s_origin_set,
                                         !.ret = r.ret, !.vec0 = v,
                                         !.vec = <<r.vec[1], r.vec[2], v[3]>>]
            /\ UNCHANGED <<loc, registry, last, lon_call, round_trip, reg_hist, str_call,
                           later>>

GetVectorNEU ==
    \E v \in VecInit :
        LET r == get_vector_from_origin_NEU_cm(loc, v)
        IN  /\ geo_call' = [NoGeo EXCEPT !.op = "get_vector_neu", !.origin_set = s_origin_set,
                                         !.frame = get_alt_frame(loc),
                                         !.alt_ok = get_alt_cm(loc, "ABOVE_ORIGIN", 0).ret,
                                         !.ret = r.ret, !.vec0 = v, !.vec = r.vec]
            /\ UNCHANGED <<loc, registry, last, lon_call, round_trip, reg_hist, str_call,
                           later>>

NextOrigin ==
    \/ SetHome
    \/ ClearHome
    \/ SetOrigin
    \/ ClearOrigin
    \/ SetTerrainProvider
    \/ ConstructNEU
    \/ GetVectorXY
    \/ GetVectorNEU

SpecOrigin == Init /\ [][NextOrigin]_vars

(***************************************************************************)
(* The registry on its own: a caller hands its Location to set_home and    *)
(* set_origin and goes on constructing over it; reg_hist remembers the     *)
(* most recent home and origin operations.                                 *)
(***************************************************************************)
home_is_set == s_home_set

home == s_home

origin_is_set == s_origin_set

origin == s_origin

RegSetHome ==
    /\ s_home' = loc
    /\ s_home_set' = TRUE
    /\ reg_hist' = [reg_hist EXCEPT !.home_op = "set", !.home_arg = loc]
    /\ UNCHANGED <<loc, s_origin_set, s_origin, s_terrain_provider, last, lon_call,
                   geo_call, round_trip, str_call, later>>

RegClearHome ==
    /\ s_home_set' = FALSE
    /\ s_home' = definitely_zero
    /\ reg_hist' = [reg_hist EXCEPT !.home_op = "clear"]
    /\ UNCHANGED <<loc, s_origin_set, s_origin, s_terrain_provider, last, lon_call,
                   geo_call, round_trip, str_call, later>>

\* set_origin assigning s_home in place of s_origin
RegSetOrigin_writes_home ==
    /\ s_home' = loc
    /\ s_origin_set' = TRUE
    /\ reg_hist' = [reg_hist EXCEPT !.origin_op = "set", !.origin_arg = loc]
    /\ UNCHANGED <<loc, s_home_set, s_origin, s_terrain_provider, last, lon_call,
                   geo_call, round_trip, str_call, later>>

RegSetOrigin ==
    /\ s_origin' = loc
    /\ s_origin_set' = TRUE
    /\ reg_hist' = [reg_hist EXCEPT !.origin_op = "set", !.origin_arg = loc]
    /\ UNCHANGED <<loc, s_home_set, s_home, s_terrain_provider, last, lon_call,
                   geo_call, round_trip, str_call, later>>

RegClearOrigin ==
    /\ s_origin_set' = FALSE
    /\ s_origin' = definitely_zero
    /\ reg_hist' = [reg_hist EXCEPT !.origin_op = "clear"]
    /\ UNCHANGED <<loc, s_home_set, s_home, s_terrain_provider, last, lon_call,
                   geo_call, round_trip, str_call, later>>

NextReg ==
    \/ RegSetHome
    \/ RegClearHome
    \/ RegSetOrigin
    \/ RegClearOrigin
    \/ SetTerrainProvider
    \/ Construct

SpecReg == Init /\ [][NextReg]_vars

(***************************************************************************)
(* strncpy_noterm is a free function: its own specification copies drawn   *)
(* strings into a fresh buffer.                                            *)
(***************************************************************************)
StrncpyNoterm ==
    \E chars \in StrSources, n \in 0..BufSize :
        LET r == strncpy_noterm(FreshBuf, CString(chars), n)
        IN  /\ str_call' = [op |-> "strncpy_noterm", src |-> chars, n |-> n,
                            ret |-> r.ret, dest |-> r.dest, to_copy |-> r.to_copy]
            /\ UNCHANGED <<loc, registry, last, lon_call, geo_call, round_trip, reg_hist,
                           later>>

NextStr ==
    \/ StrncpyNoterm

SpecStr == Init /\ [][NextStr]_vars

(***************************************************************************)
(* Round trips of change_alt_frame: their own specification converts a     *)
(* Location to a frame and back while the registry is left alone.          *)
(***************************************************************************)
\* no round trip is between its two calls
AtRest == round_trip.phase # "there"

\* loc.change_alt_frame(f2), from an altitude a caller assigned
ChangeThere ==
    \E f2 \in AltFrame :
        LET r == change_alt_frame(loc, f2)
        IN  /\ AtRest
            /\ loc.alt \in LocAlts
            /\ loc' = r.loc
            /\ round_trip' = [NoRound EXCEPT !.phase = "there", !.f1 = get_alt_frame(loc),
                                             !.a = loc.alt, !.f2 = f2, !.ret1 = r.ret,
                                             !.alt_there = r.loc.alt]
            /\ UNCHANGED <<registry, last, lon_call, geo_call, reg_hist, str_call, later>>

\* loc.change_alt_frame(f1), the registry as it was at the first call
ChangeBack ==
    LET r == change_alt_frame(loc, round_trip.f1)
    IN  /\ round_trip.phase = "there"
        /\ loc' = r.loc
        /\ round_trip' = [round_trip EXCEPT !.phase = "back", !.ret2 = r.ret,
                                            !.alt_back = r.loc.alt,
                                            !.frame_back = get_alt_frame(r.loc)]
        /\ UNCHANGED <<registry, last, lon_call, geo_call, reg_hist, str_call, later>>

NextRound ==
    \/ AtRest /\ SetHome
    \/ AtRest /\ ClearHome
    \/ AtRest /\ SetOrigin
    \/ AtRest /\ ClearOrigin
    \/ AtRest /\ SetTerrainProvider
    \/ AtRest /\ Construct
    \/ AtRest /\ WriteFlag
    \/ ChangeThere
    \/ ChangeBack

SpecRound == Init /\ [][NextRound]_vars

(***************************************************************************)
(* Conversions against a home or an origin registered in any frame: their  *)
(* own specification hands the Location under construction to set_home and *)
(* set_origin, then asks another Location for its ABSOLUTE altitude.       *)
(* ref_call keeps what the reference's own conversion yielded at the call. *)
(***************************************************************************)
\* a Location about to be registered or asked, of a nonzero altitude
RefConstruct ==
    \E ll \in LatLngs, frame \in AltFrame :
        /\ loc' = Location(ll[1], ll[2], 2000, frame)
        /\ ref_call' = NoRef
        /\ UNCHANGED <<registry, last, lon_call, geo_call, round_trip, reg_hist,
                       str_call, walk, san_call, cmp_call, zero_call, interp_call>>

\* loc.get_alt_cm(ABSOLUTE, out), and home().get_alt_cm(ABSOLUTE, ...) or
\* origin().get_alt_cm(ABSOLUTE, ...) as a caller would ask at that moment
GetAbsolute ==
    \E out0 \in OutInit :
        LET frame == get_alt_frame(loc)
            r == get_alt_cm(loc, "ABSOLUTE", out0)
            ref == IF frame = "ABOVE_ORIGIN" THEN origin ELSE home
            h == get_alt_cm(ref, "ABSOLUTE", 0)
        IN  /\ ref_call' = [op |-> "get_alt_cm", frame |-> frame, a |-> loc.alt,
                            ret |-> r.ret, out |-> r.ret_alt_cm,
                            ref_set |-> IF frame = "ABOVE_ORIGIN" THEN origin_is_set
                                        ELSE home_is_set,
                            ref_ret |-> h.ret, ref_abs |-> h.ret_alt_cm]
            /\ UNCHANGED <<loc, registry, last, lon_call, geo_call, round_trip, reg_hist,
                           str_call, walk, san_call, cmp_call, zero_call, interp_call>>

NextHome ==
    \/ RegSetHome
    \/ RegClearHome
    \/ RegSetOrigin
    \/ RegClearOrigin
    \/ SetTerrainProvider
    \/ RefConstruct
    \/ GetAbsolute

SpecHome == Init /\ [][NextHome]_vars

(***************************************************************************)
(* Walks: their own specification applies offset after offset to a         *)
(* Location that started inside the valid domain.                          *)
(***************************************************************************)
WalkStart ==
    \E latitude \in WalkLats, longitude \in WalkLngs :
        /\ loc' = Location(latitude, longitude, 0, "ABSOLUTE")
        /\ walk' = [op |-> "start", hops |-> 0]
        /\ UNCHANGED <<registry, last, lon_call, geo_call, round_trip, reg_hist,
                       str_call, ref_call, san_call, cmp_call, zero_call, interp_call>>

\* loc.offset(ofs_north, ofs_east), again and again
WalkOffset ==
    \E ofs_north \in WalkOffsetsCm, ofs_east \in WalkOffsetsCm :
        /\ walk.op # "none"
        /\ walk.hops < MaxHops
        /\ loc' = offset(loc, ofs_north, ofs_east)
        /\ walk' = [op |-> "offset", hops |-> walk.hops + 1]
        /\ UNCHANGED <<registry, last, lon_call, geo_call, round_trip, reg_hist,
                       str_call, ref_call, san_call, cmp_call, zero_call, interp_call>>

NextWalk ==
    \/ WalkStart
    \/ WalkOffset

SpecWalk == Init /\ [][NextWalk]_vars

(***************************************************************************)
(* sanitize: its own specification sanitizes a constructed Location        *)
(* against a default under every registry state.  After Sanitize loc is    *)
(* the Location as the call left it; san_call keeps what it was before.    *)
(***************************************************************************)
SanConstruct ==
    \E ll \in SanLatLngs, alt_in_cm \in LocAlts, frame \in AltFrame :
        /\ loc' = Location(ll[1], ll[2], alt_in_cm, frame)
        /\ san_call' = NoSan
        /\ UNCHANGED <<registry, last, lon_call, geo_call, round_trip, reg_hist,
                       str_call, ref_call, walk, cmp_call, zero_call, interp_call>>

\* loc.sanitize(defaultLoc)
Sanitize ==
    \E defaultLoc \in SanDefaults :
        LET r == sanitize(loc, defaultLoc)
        IN  /\ loc' = r.loc
            /\ san_call' = [op |-> "sanitize", before |-> loc, default |-> defaultLoc,
                            ret |-> r.ret, conv_ret |-> r.conv_ret,
                            conv_alt |-> r.conv_alt]
            /\ UNCHANGED <<registry, last, lon_call, geo_call, round_trip, reg_hist,
                           str_call, ref_call, walk, cmp_call, zero_call, interp_call>>

NextSan ==
    \/ SetHome
    \/ ClearHome
    \/ SetOrigin
    \/ ClearOrigin
    \/ SetTerrainProvider
    \/ SanConstruct
    \/ Sanitize

SpecSan == Init /\ [][NextSan]_vars

(***************************************************************************)
(* same_alt_as: its own specification compares a constructed Location with *)
(* another under every registry state, both ways round.  cmp_call keeps    *)
(* what the two conversions to ABSOLUTE yielded at the call.               *)
(***************************************************************************)
CmpConstruct ==
    \E ll \in LatLngs, alt_in_cm \in LocAlts, frame \in AltFrame :
        /\ loc' = Location(ll[1], ll[2], alt_in_cm, frame)
        /\ cmp_call' = NoCmp
        /\ UNCHANGED <<registry, last, lon_call, geo_call, round_trip, reg_hist,
                       str_call, ref_call, walk, san_call, zero_call, interp_call>>

\* loc.same_alt_as(loc2) and loc2.same_alt_as(loc)
SameAltAs ==
    \E loc2 \in CmpLocations :
        LET r1 == get_alt_cm(loc, "ABSOLUTE", 0)
            r2 == get_alt_cm(loc2, "ABSOLUTE", 0)
        IN  /\ cmp_call' = [op |-> "same_alt_as", other |-> loc2,
                            ret |-> same_alt_as(loc, loc2),
                            swapped |-> same_alt_as(loc2, loc),
                            ok1 |-> r1.ret, abs1 |-> r1.ret_alt_cm,
                            ok2 |-> r2.ret, abs2 |-> r2.ret_alt_cm]
            /\ UNCHANGED <<loc, registry, last, lon_call, geo_call, round_trip, reg_hist,
                           str_call, ref_call, walk, san_call, zero_call, interp_call>>

NextCmp ==
    \/ SetHome
    \/ ClearHome
    \/ SetOrigin
    \/ ClearOrigin
    \/ SetTerrainProvider
    \/ CmpConstruct
    \/ SameAltAs

SpecCmp == Init /\ [][NextCmp]_vars

(***************************************************************************)
(* is_zero: its own specification constructs a Location, writes its        *)
(* bit-fields, clears it and asks whether it is zero.                      *)
(***************************************************************************)
\* Location()
DefaultConstruct ==
    /\ loc' = zero(loc)
    /\ zero_call' = NoZero
    /\ UNCHANGED <<registry, last, lon_call, geo_call, round_trip, reg_hist,
                   str_call, ref_call, walk, san_call, cmp_call, interp_call>>

ZeroConstruct ==
    \E ll \in ZeroLatLngs, alt_in_cm \in LocAlts, frame \in AltFrame :
        /\ loc' = Location(ll[1], ll[2], alt_in_cm, frame)
        /\ zero_call' = [NoZero EXCEPT !.made = "explicit"]
        /\ UNCHANGED <<registry, last, lon_call, geo_call, round_trip, reg_hist,
                       str_call, ref_call, walk, san_call, cmp_call, interp_call>>

\* a caller assigns a bit-field
ZeroWriteFlag ==
    \E f \in FlagNames, bit \in 0..1 :
        /\ loc' = [loc EXCEPT ![f] = bit]
        /\ zero_call' = [NoZero EXCEPT !.made = "written"]
        /\ UNCHANGED <<registry, last, lon_call, geo_call, round_trip, reg_hist,
                       str_call, ref_call, walk, san_call, cmp_call, interp_call>>

\* loc.zero()
Zero ==
    /\ loc' = zero(loc)
    /\ zero_call' = [NoZero EXCEPT !.made = "zero"]
    /\ UNCHANGED <<registry, last, lon_call, geo_call, round_trip, reg_hist,
                   str_call, ref_call, walk, san_call, cmp_call, interp_call>>

\* loc.is_zero() and loc.initialised()
IsZero ==
    /\ zero_call' = [zero_call EXCEPT !.op = "is_zero", !.ret = is_zero(loc),
                                      !.initialised = initialised(loc)]
    /\ UNCHANGED <<loc, registry, last, lon_call, geo_call, round_trip, reg_hist,
                   str_call, ref_call, walk, san_call, cmp_call, interp_call>>

NextZero ==
    \/ DefaultConstruct
    \/ ZeroConstruct
    \/ ZeroWriteFlag
    \/ Zero
    \/ IsZero

SpecZero == Init /\ [][NextZero]_vars

(***************************************************************************)
(* linearly_interpolate_alt: its own specification places a Location       *)
(* around a leg p1 -> p2 and interpolates its altitude.  interp_call keeps *)
(* the Location as it was and the path proportion before the clamp.        *)
(***************************************************************************)
InterpConstruct ==
    \E dlat \in InterpLatSteps, dlng \in InterpLngSteps, alt_in_cm \in LocAlts,
       frame \in AltFrame :
        /\ loc' = Location(-338570000 + dlat, 1512150000 + dlng, alt_in_cm, frame)
        /\ interp_call' = NoInterp
        /\ UNCHANGED <<registry, last, lon_call, geo_call, round_trip, reg_hist,
                       str_call, ref_call, walk, san_call, cmp_call, zero_call>>

\* loc.linearly_interpolate_alt(p1, p2), loc a Location placed around the
\* leg: within some 300 m the products of the fixed-point vectors stay inside
\* 32 bits
LinearlyInterpolateAlt ==
    \E p1 \in InterpStarts, p2 \in InterpEnds :
        /\ initialised(loc)
        /\ loc' = linearly_interpolate_alt(loc, p1, p2)
        /\ interp_call' = [op |-> "linearly_interpolate_alt", before |-> loc,
                           p1 |-> p1, p2 |-> p2,
                           t |-> line_path_proportion(loc, p1, p2)]
        /\ UNCHANGED <<registry, last, lon_call, geo_call, round_trip, reg_hist,
                       str_call, ref_call, walk, san_call, cmp_call, zero_call>>

NextInterp ==
    \/ InterpConstruct
    \/ LinearlyInterpolateAlt

SpecInterp == Init /\ [][NextInterp]_vars

(***************************************************************************)
(* Properties.                                                             *)
(***************************************************************************)
IsGet == last.op = "get_alt_cm"

Untouched == ~last.ret /\ last.out_after = last.out_before

Involves(f) == f \in {last.frame, last.desired}

\* C1: get_alt_cm between two different frames returns false and leaves the
\* caller's output variable as it was when home is unset and one of the two
\* frames is ABOVE_HOME, or origin is unset and one of them is ABOVE_ORIGIN.
C1_MissingReferenceFails ==
    (/\ IsGet
     /\ last.desired # last.frame
     /\ \/ ~s_home_set /\ Involves("ABOVE_HOME")
        \/ ~s_origin_set /\ Involves("ABOVE_ORIGIN"))
    => Untouched

C1_Witness ==
    /\ IsGet
    /\ last.frame = "ABSOLUTE"
    /\ last.desired = "ABOVE_ORIGIN"
    /\ ~s_origin_set
    /\ s_home_set
    /\ s_terrain_provider.ok
    /\ Untouched

\* C2: with home set to a Location of ABSOLUTE altitude h, get_alt_cm(ABSOLUTE)
\* on a Location in frame ABOVE_HOME with altitude a succeeds and yields a + h.
C2_AboveHomeToAbsolute ==
    (/\ IsGet
     /\ last.frame = "ABOVE_HOME"
     /\ last.desired = "ABSOLUTE"
     /\ s_home_set
     /\ get_alt_frame(s_home) = "ABSOLUTE")
    => (last.ret /\ last.out_after = loc.alt + s_home.alt)

C2_Witness ==
    /\ IsGet
    /\ last.frame = "ABOVE_HOME"
    /\ last.desired = "ABSOLUTE"
    /\ s_home_set
    /\ s_home.alt = 10000
    /\ loc.alt = 2000
    /\ last.ret
    /\ last.out_after = 12000

\* C3: change_alt_frame(f) is all-or-nothing.  It returns what get_alt_cm
\* returns; on true the altitude is the converted value, the decoded frame is
\* f and lat, lng, loiter_ccw, loiter_xtrack are unchanged; on false every
\* field of the Location is as before the call.
C3_ChangeAltFrameAllOrNothing ==
    [][last'.op = "change_alt_frame" =>
        LET r == get_alt_cm(loc, last'.desired, 0)
        IN  /\ last'.ret = r.ret
            /\ IF last'.ret
               THEN /\ loc'.alt = r.ret_alt_cm
                    /\ get_alt_frame(loc') = last'.desired
                    /\ loc'.lat = loc.lat
                    /\ loc'.lng = loc.lng
                    /\ loc'.loiter_ccw = loc.loiter_ccw
                    /\ loc'.loiter_xtrack = loc.loiter_xtrack
               ELSE loc' = loc]_vars

C3_Witness ==
    /\ last.op = "change_alt_frame"
    /\ last.ret
    /\ last.frame = "ABOVE_HOME"
    /\ last.desired = "ABSOLUTE"
    /\ loc.alt = 12000
    /\ loc.relative_alt = 0
    /\ loc.loiter_ccw = 1
    /\ loc.loiter_xtrack = 1
    /\ loc.lat # 0

\* C4: when the desired frame is the Location's decoded frame, get_alt_cm
\* succeeds with the stored alt in every registry state and does not invoke
\* the terrain provider.
C4_SameFrameShortcut ==
    (IsGet /\ last.desired = last.frame)
    => (last.ret /\ last.out_after = loc.alt /\ last.calls = 0)

C4_Witness ==
    /\ IsGet
    /\ last.frame = "ABOVE_TERRAIN"
    /\ last.desired = "ABOVE_TERRAIN"
    /\ ~s_home_set
    /\ ~s_origin_set
    /\ ~s_terrain_provider.installed
    /\ last.ret
    /\ last.out_after = loc.alt

\* C5: between two different frames of which one is ABOVE_TERRAIN, get_alt_cm
\* returns false with the output untouched when no provider is installed or
\* the installed one returns false; when neither frame is ABOVE_TERRAIN the
\* provider is not invoked and the result is the same under every provider,
\* installed or not.
C5_TerrainProviderNeeded ==
    (IsGet /\ last.desired # last.frame)
    => /\ (Involves("ABOVE_TERRAIN") /\ ~s_terrain_provider.ok) => Untouched
       /\ ~Involves("ABOVE_TERRAIN") =>
              /\ last.calls = 0
              /\ \A p \in Providers :
                     get_alt_cm_with(loc, last.desired, last.out_before, p)
                         = [ret |-> last.ret, ret_alt_cm |-> last.out_after, calls |-> 0]

C5_Witness ==
    /\ IsGet
    /\ last.frame = "ABOVE_HOME"
    /\ last.desired = "ABOVE_TERRAIN"
    /\ s_home_set
    /\ s_origin_set
    /\ s_terrain_provider.installed
    /\ ~s_terrain_provider.ok
    /\ Untouched

\* C6: get_alt_frame returns ABOVE_TERRAIN if terrain_alt is set, else
\* ABOVE_ORIGIN if origin_alt is set, else ABOVE_HOME if relative_alt is set,
\* else ABSOLUTE, whatever loiter_ccw and loiter_xtrack are.
C6_DecodePriority ==
    last.op = "get_alt_frame" =>
        /\ last.frame = "ABOVE_TERRAIN" <=> loc.terrain_alt = 1
        /\ last.frame = "ABOVE_ORIGIN" <=> (loc.terrain_alt = 0 /\ loc.origin_alt = 1)
        /\ last.frame = "ABOVE_HOME" <=>
               (loc.terrain_alt = 0 /\ loc.origin_alt = 0 /\ loc.relative_alt = 1)
        /\ last.frame = "ABSOLUTE" <=>
               (loc.terrain_alt = 0 /\ loc.origin_alt = 0 /\ loc.relative_alt = 0)
        /\ \A c \in 0..1, x \in 0..1 :
               get_alt_frame([loc EXCEPT !.loiter_ccw = c, !.loiter_xtrack = x])
                   = last.frame

C6_Witness ==
    /\ last.op = "get_alt_frame"
    /\ loc.terrain_alt = 1
    /\ loc.origin_alt = 1
    /\ loc.relative_alt = 0
    /\ loc.loiter_ccw = 1
    /\ last.frame = "ABOVE_TERRAIN"

\* the flag encoding of a frame: <<relative_alt, terrain_alt, origin_alt>>
Encoding(f) ==
    CASE f = "ABSOLUTE"      -> <<0, 0, 0>>
      [] f = "ABOVE_HOME"    -> <<1, 0, 0>>
      [] f = "ABOVE_ORIGIN"  -> <<0, 0, 1>>
      [] f = "ABOVE_TERRAIN" -> <<1, 1, 0>>

\* C7: after set_alt_cm(x, f), from any prior flag state, alt is x, the flags
\* relative_alt, terrain_alt, origin_alt are the encoding of f, get_alt_frame
\* returns f, and lat, lng, loiter_ccw, loiter_xtrack are unchanged.
C7_SetAltCmEncodes ==
    [][last'.op = "set_alt_cm" =>
        /\ loc'.alt = last'.arg
        /\ <<loc'.relative_alt, loc'.terrain_alt, loc'.origin_alt>> = Encoding(last'.desired)
        /\ get_alt_frame(loc') = last'.desired
        /\ loc'.lat = loc.lat
        /\ loc'.lng = loc.lng
        /\ loc'.loiter_ccw = loc.loiter_ccw
        /\ loc'.loiter_xtrack = loc.loiter_xtrack]_vars

C7_Witness ==
    /\ last.op = "set_alt_cm"
    /\ last.frame = "ABOVE_ORIGIN"
    /\ last.desired = "ABOVE_HOME"
    /\ last.arg = 2000
    /\ loc.alt = 2000
    /\ <<loc.relative_alt, loc.terrain_alt, loc.origin_alt>> = <<1, 0, 0>>
    /\ loc.loiter_ccw = 1
    /\ loc.loiter_xtrack = 1
    /\ loc.lat # 0

IsWrap == lon_call.op = "wrap_longitude"

\* C8: for every 64-bit x, wrap_longitude(x) lies in [-1800000000, 1800000000).
C8_WrapRangeBound ==
    IsWrap => (-LonHalfTurn <= lon_call.r /\ lon_call.r < LonHalfTurn)

\* C9: for every 64-bit x, wrap_longitude(wrap_longitude(x)) = wrap_longitude(x).
C9_WrapIdempotent ==
    IsWrap => lon_call.r2 = lon_call.r

\* C10: diff_longitude(a, b) = -diff_longitude(b, a) for all 32-bit a and b,
\* and diff_longitude(a, a) = 0, on the same-sign path and on the 64-bit path.
C10_DiffAntisymmetric ==
    lon_call.op = "diff_longitude" =>
        /\ I64Add(I64(lon_call.r), I64(lon_call.r2)) = I64(0)
        /\ lon_call.lon1 = lon_call.lon2 => lon_call.r = 0

C10_Witness ==
    /\ lon_call.op = "diff_longitude"
    /\ lon_call.lon1 = LonHalfTurn
    /\ lon_call.lon2 = -LonHalfTurn
    /\ lon_call.r = 0
    /\ lon_call.r2 = 0

(***************************************************************************)
(* Offsets and distances (SpecGeo).                                        *)
(***************************************************************************)
Offsetted == geo_call.op \in {"offset", "offset_distance"}

\* at most 85 degrees of latitude and 175 degrees of longitude: an offset of
\* a few kilometres reaches neither a pole nor the antimeridian
AwayFromPoles(l) == l.lat >= -850000000 /\ l.lat <= 850000000

AwayFromAntimeridian(l) == l.lng >= -1750000000 /\ l.lng <= 1750000000

\* C11: offset(0, 0) changes nothing of a Location whose lat is within
\* [-900000000, 900000000] and whose lng is a valid longitude: lat, lng, alt
\* and all flags are as before.
C11_ZeroOffsetNoOp ==
    (/\ Offsetted
     /\ geo_call.north = 0 /\ geo_call.east = 0
     /\ check_lat(geo_call.before.lat) /\ check_lng(geo_call.before.lng))
    => loc = geo_call.before

C11_Witness ==
    /\ geo_call.op = "offset"
    /\ geo_call.north = 0 /\ geo_call.east = 0
    /\ geo_call.before.lat = 900000000
    /\ geo_call.before.lng = 1800000000
    /\ geo_call.before.alt = 2000
    /\ loc = geo_call.before

\* C12: away from the poles and the antimeridian, offset(d, 0) with d >= 1 m
\* strictly increases lat and leaves lng, and offset(0, d) with d >= 1 m
\* strictly increases lng and leaves lat; alt and the flags are unchanged.
C12_OffsetsMoveInNamedDirection ==
    (Offsetted /\ AwayFromPoles(geo_call.before) /\ AwayFromAntimeridian(geo_call.before))
    => /\ (geo_call.north >= 100 /\ geo_call.east = 0)
          => (loc.lat > geo_call.before.lat /\ loc.lng = geo_call.before.lng)
       /\ (geo_call.north = 0 /\ geo_call.east >= 100)
          => (loc.lng > geo_call.before.lng /\ loc.lat = geo_call.before.lat)
       /\ [loc EXCEPT !.lat = geo_call.before.lat, !.lng = geo_call.before.lng]
          = geo_call.before

C12_Witness ==
    /\ geo_call.op = "offset"
    /\ geo_call.north = 0 /\ geo_call.east = 100000
    /\ geo_call.before.lat = -338570000 /\ geo_call.before.lng = 1512150000
    /\ geo_call.before.alt = 2000 /\ get_alt_frame(geo_call.before) = "ABOVE_TERRAIN"
    /\ loc.lat = -338570000 /\ loc.lng > 1512150000
    /\ loc.alt = 2000 /\ get_alt_frame(loc) = "ABOVE_TERRAIN"

\* C13: for a non-polar Location and a northward offset d of at least 1 m,
\* the distance from the start to the offset Location is d within 6 per cent
\* (60 m for d = 1000 m).
C13_OffsetDistanceRoundTrip ==
    (/\ geo_call.op = "offset_distance"
     /\ AwayFromPoles(geo_call.before)
     /\ geo_call.north >= 100 /\ geo_call.east = 0)
    => Abs(geo_call.d1 - geo_call.north) <= (6 * geo_call.north) \div 100

C13_Witness ==
    /\ geo_call.op = "offset_distance"
    /\ geo_call.before.lat = -338570000 /\ geo_call.before.lng = 1512150000
    /\ geo_call.north = 100000 /\ geo_call.east = 0
    /\ loc.lat > geo_call.before.lat
    /\ Abs(geo_call.d1 - 100000) <= 6000

\* a Location's position alone: alt and every flag zeroed
PositionOf(l) == [definitely_zero EXCEPT !.lat = l.lat, !.lng = l.lng]

\* C14: a.get_distance(b) equals b.get_distance(a), and neither altitude nor
\* flags of a or b enter the result.
C14_DistanceSymmetric ==
    geo_call.op = "get_distance"
    => /\ geo_call.d1 = geo_call.d2
       /\ geo_call.d1 = get_distance(PositionOf(loc), PositionOf(geo_call.other))

C14_Witness ==
    /\ geo_call.op = "get_distance"
    /\ loc.lat = -338570000 /\ loc.lng = 1512150000
    /\ geo_call.other.lat = -338520000 /\ geo_call.other.lng = 1512100000
    /\ loc.alt # geo_call.other.alt
    /\ geo_call.d1 >= 55000 /\ geo_call.d1 <= 85000
    /\ geo_call.d2 = geo_call.d1

(***************************************************************************)
(* Origin-relative construction and vectors (SpecOrigin).                  *)
(***************************************************************************)
\* C15: a Location constructed from a North-East-Up vector while no origin is
\* set has lat = 0, lng = 0 and alt = int32_t(z) in the requested frame; one
\* constructed while an origin is set, with zero horizontal offset, has the
\* origin's lat and lng as they were at the construction; it stays so under
\* every later registry call.
C15_ConstructFromNEU ==
    geo_call.op = "neu_ctor"
    => /\ ~geo_call.origin_set
          => /\ loc.lat = 0 /\ loc.lng = 0
             /\ loc.alt = (IF geo_call.z = -3 THEN -1 ELSE geo_call.z \div 2)
             /\ <<loc.relative_alt, loc.terrain_alt, loc.origin_alt>>
                = Encoding(geo_call.frame)
       /\ (geo_call.origin_set /\ geo_call.north = 0 /\ geo_call.east = 0)
          => (loc.lat = geo_call.other.lat /\ loc.lng = geo_call.other.lng)

C15_Witness ==
    /\ geo_call.op = "neu_ctor"
    /\ geo_call.origin_set /\ geo_call.north = 0 /\ geo_call.east = 0
    /\ geo_call.other.lat = -338520000
    /\ loc.lat = -338520000 /\ loc.lng = 1512100000
    /\ ~s_origin_set /\ s_origin.lat = 0

\* C16: while no origin is set both vector accessors return false and leave
\* the caller's vector as it was, also for a Location in the ABOVE_ORIGIN
\* frame; with an origin set the NEU accessor returns true exactly when
\* get_alt_cm(ABOVE_ORIGIN) succeeds.
C16_VectorsNeedOrigin ==
    geo_call.op \in {"get_vector_xy", "get_vector_neu"}
    => /\ ~geo_call.origin_set => (~geo_call.ret /\ geo_call.vec = geo_call.vec0)
       /\ (geo_call.op = "get_vector_neu" /\ geo_call.origin_set)
          => (geo_call.ret <=> geo_call.alt_ok)

C16_Witness ==
    /\ geo_call.op = "get_vector_neu"
    /\ ~geo_call.origin_set
    /\ geo_call.frame = "ABOVE_ORIGIN" /\ geo_call.alt_ok
    /\ ~geo_call.ret
    /\ geo_call.vec = <<-1, -2, -3>>

(***************************************************************************)
(* The registry (SpecReg).                                                 *)
(***************************************************************************)
\* C17: after any sequence of registry calls home_is_set() is true exactly
\* when the most recent home operation was set_home, and home() is then the
\* Location that call was given, whatever the caller made of its own Location
\* since; likewise origin_is_set() and origin(); home operations leave the
\* origin state alone and origin operations the home state.
C17_RegistryFollowsLastOperation ==
    /\ home_is_set <=> reg_hist.home_op = "set"
    /\ reg_hist.home_op = "set" => home = reg_hist.home_arg
    /\ origin_is_set <=> reg_hist.origin_op = "set"
    /\ reg_hist.origin_op = "set" => origin = reg_hist.origin_arg

C17_Witness ==
    /\ reg_hist.home_op = "set" /\ reg_hist.origin_op = "clear"
    /\ home_is_set /\ home = reg_hist.home_arg
    /\ get_alt_frame(home) = "ABOVE_TERRAIN" /\ home.alt = 2000
    /\ loc # home
    /\ ~origin_is_set /\ reg_hist.origin_arg # definitely_zero
    /\ s_terrain_provider.installed

(***************************************************************************)
(* Terrain is asked for at every conversion (Spec).                        *)
(***************************************************************************)
\* what an altitude in frame f is measured from, as the registry now has it
ReferenceCm(f) ==
    CASE f = "ABSOLUTE"      -> 0
      [] f = "ABOVE_HOME"    -> s_home.alt
      [] f = "ABOVE_ORIGIN"  -> s_origin.alt
      [] f = "ABOVE_TERRAIN" -> TerrainCm(s_terrain_provider.height_e8)

C19_ReturnsSourceLength ==
    str_call.op = "strncpy_noterm"
    => /\ str_call.ret = Len(str_call.src)
       /\ str_call.to_copy <= str_call.n
       /\ \A i \in 1..BufSize : i > str_call.n => str_call.dest[i] = FreshBuf[i]

(***************************************************************************)
(* Round trips of change_alt_frame (SpecRound).                            *)
(***************************************************************************)
\* C20: for a Location in decoded frame f1 with altitude a and any frame f2,
\* if change_alt_frame(f2) succeeds and the registry is unchanged, then
\* change_alt_frame(f1) succeeds too and restores altitude a and frame f1.
C20_ConversionInvertible ==
    (round_trip.phase = "back" /\ round_trip.ret1)
    => /\ round_trip.ret2
       /\ round_trip.alt_back = round_trip.a
       /\ round_trip.frame_back = round_trip.f1

C20_Witness ==
    /\ round_trip.phase = "back"
    /\ round_trip.f1 = "ABOVE_ORIGIN" /\ round_trip.f2 = "ABOVE_TERRAIN"
    /\ round_trip.a = 2000
    /\ round_trip.ret1 /\ round_trip.alt_there = 2000 + 8000 - 12
    /\ round_trip.ret2 /\ round_trip.alt_back = 2000
    /\ round_trip.frame_back = "ABOVE_ORIGIN"
    /\ loc.alt = 2000 /\ get_alt_frame(loc) = "ABOVE_ORIGIN"

(***************************************************************************)
(* References registered in any frame (SpecHome).                          *)
(***************************************************************************)
\* C21: with a home registered by set_home in any altitude frame,
\* get_alt_cm(ABSOLUTE) on an ABOVE_HOME Location of stored altitude a
\* succeeds and yields a plus what home().get_alt_cm(ABSOLUTE) yields; the
\* same for ABOVE_ORIGIN and origin().
C21_AddsReferenceAbsolute ==
    (/\ ref_call.op = "get_alt_cm"
     /\ ref_call.frame \in {"ABOVE_HOME", "ABOVE_ORIGIN"}
     /\ ref_call.ref_set
     /\ ref_call.ref_ret)
    => (ref_call.ret /\ ref_call.out = ref_call.a + ref_call.ref_abs)


(***************************************************************************)
(* Walks (SpecWalk).                                                       *)
(***************************************************************************)
\* C22: from a Location with lat in [-900000000, 900000000] and lng in
\* [-1800000000, 1800000000), after any sequence of offset calls lat is in
\* [-900000000, 900000000] and lng is in [-1800000000, 1800000000).
C22_OffsetKeepsPositionValid ==
    walk.op = "offset"
    => /\ -900000000 <= loc.lat /\ loc.lat <= 900000000
       /\ -LonHalfTurn <= loc.lng /\ loc.lng < LonHalfTurn

(***************************************************************************)
(* diff_longitude on the longitude domain (SpecLon).                       *)
(***************************************************************************)
InLngDomain(lng) == -LonHalfTurn <= lng /\ lng <= LonHalfTurn

\* C23: for a and b in [-1800000000, 1800000000], diff_longitude(a, b) lies
\* in [-1800000000, 1800000000] and differs from the exact a - b by a multiple
\* of 3600000000 (none, one turn more or one turn less), on the same-sign
\* path and on the 64-bit path alike.
C23_DiffIsShortestCircular ==
    (/\ lon_call.op = "diff_longitude"
     /\ InLngDomain(lon_call.lon1)
     /\ InLngDomain(lon_call.lon2))
    => /\ InLngDomain(lon_call.r)
       /\ I64Sub(I64Sub(I64(lon_call.lon1), I64(lon_call.lon2)), I64(lon_call.r))
              \in {I64(0), LonFullTurn, I64Neg(LonFullTurn)}

C23_Witness ==
    /\ lon_call.op = "diff_longitude"
    /\ lon_call.lon1 = -LonHalfTurn + 1
    /\ lon_call.lon2 = LonHalfTurn
    /\ lon_call.r = 1

(***************************************************************************)
(* sanitize (SpecSan).                                                     *)
(***************************************************************************)
Sanitized == san_call.op = "sanitize"

\* the valid domain of lat and lng: lng's upper end excluded
InDomain(l) ==
    /\ -900000000 <= l.lat /\ l.lat <= 900000000
    /\ -LonHalfTurn <= l.lng /\ l.lng < LonHalfTurn

BothZero(l) == l.lat = 0 /\ l.lng = 0

\* C24: after sanitize(default) with default's lat/lng inside the valid
\* domain the Location's lat/lng are inside it too: a Location with lat and
\* lng both zero, or with lat or lng outside the domain, ends with default's
\* lat and lng and true is returned; one with in-domain lat/lng that are not
\* both zero keeps them.
C24_SanitizeRestoresDomain ==
    (Sanitized /\ InDomain(san_call.default))
    => /\ InDomain(loc)
       /\ (BothZero(san_call.before) \/ ~InDomain(san_call.before))
              => /\ loc.lat = san_call.default.lat
                 /\ loc.lng = san_call.default.lng
                 /\ san_call.ret
       /\ (InDomain(san_call.before) /\ ~BothZero(san_call.before))
              => /\ loc.lat = san_call.before.lat
                 /\ loc.lng = san_call.before.lng

\* C25: sanitize(default) on a Location of altitude zero in a frame other
\* than ABSOLUTE sets alt to default's altitude converted into the Location's
\* frame and returns true when the conversion succeeds, and leaves alt at
\* zero when it fails; the frame flags are never changed, and a nonzero or an
\* ABSOLUTE altitude is never changed.
C25_SanitizeAdoptsAltitude ==
    Sanitized
    => /\ (san_call.before.alt = 0 /\ get_alt_frame(san_call.before) # "ABSOLUTE")
              => IF san_call.conv_ret
                 THEN loc.alt = san_call.conv_alt /\ san_call.ret
                 ELSE loc.alt = 0
       /\ (san_call.before.alt # 0 \/ get_alt_frame(san_call.before) = "ABSOLUTE")
              => loc.alt = san_call.before.alt
       /\ \A f \in FlagNames : loc[f] = san_call.before[f]

\* C26: sanitize(default) returns true iff some field of the Location
\* differs after the call from its value before the call.
C26_SanitizeReportsChange ==
    Sanitized => (san_call.ret <=> loc # san_call.before)

(***************************************************************************)
(* same_alt_as (SpecCmp).                                                  *)
(***************************************************************************)
Compared == cmp_call.op = "same_alt_as"

SameFrame == get_alt_frame(loc) = get_alt_frame(cmp_call.other)

\* C27: same_alt_as on two Locations of the same decoded frame returns true
\* iff their stored altitudes are equal, whatever the registry holds; on two
\* of different frames it returns true iff both conversions to ABSOLUTE
\* succeed and yield equal centimetres, and false when either fails; the
\* result is the same with the two Locations swapped.
C27_SameAltAs ==
    Compared
    => /\ SameFrame => (cmp_call.ret <=> loc.alt = cmp_call.other.alt)
       /\ ~SameFrame => (cmp_call.ret <=> (/\ cmp_call.ok1
                                          /\ cmp_call.ok2
                                          /\ cmp_call.abs1 = cmp_call.abs2))
       /\ cmp_call.swapped = cmp_call.ret

C27_Witness ==
    /\ Compared
    /\ get_alt_frame(loc) = "ABOVE_HOME" /\ loc.alt = 2000
    /\ get_alt_frame(cmp_call.other) = "ABOVE_ORIGIN" /\ cmp_call.other.alt = 4000
    /\ cmp_call.ok1 /\ cmp_call.abs1 = 12000
    /\ cmp_call.ok2 /\ cmp_call.abs2 = 12000
    /\ cmp_call.ret /\ cmp_call.swapped

(***************************************************************************)
(* is_zero (SpecZero).                                                     *)
(***************************************************************************)
AtZeroPosition == loc.lat = 0 /\ loc.lng = 0 /\ loc.alt = 0

\* C28: is_zero() is true iff lat, lng, alt and the five flag bits are all
\* zero; it is true of a default-constructed Location and after zero(); a
\* Location with lat = lng = alt = 0 and a frame other than ABSOLUTE is not
\* zero and not initialised(); initialised() is true iff one of lat, lng, alt
\* is nonzero; is_zero() implies not initialised().
C28_IsZeroComparesEveryField ==
    zero_call.op = "is_zero"
    => /\ zero_call.ret <=> (/\ AtZeroPosition
                             /\ loc.relative_alt = 0 /\ loc.loiter_ccw = 0
                             /\ loc.terrain_alt = 0 /\ loc.origin_alt = 0
                             /\ loc.loiter_xtrack = 0)
       /\ zero_call.made \in {"default", "zero"} => zero_call.ret
       /\ (AtZeroPosition /\ get_alt_frame(loc) # "ABSOLUTE")
              => (~zero_call.ret /\ ~zero_call.initialised)
       /\ zero_call.initialised <=> ~AtZeroPosition
       /\ zero_call.ret => ~zero_call.initialised

C28_Witness ==
    /\ zero_call.op = "is_zero"
    /\ zero_call.made = "explicit"
    /\ AtZeroPosition
    /\ get_alt_frame(loc) = "ABOVE_ORIGIN"
    /\ ~zero_call.ret
    /\ ~zero_call.initialised

(***************************************************************************)
(* linearly_interpolate_alt (SpecInterp).                                  *)
(***************************************************************************)
Interpolated == interp_call.op = "linearly_interpolate_alt"

SameLatLng(a, b) == a.lat = b.lat /\ a.lng = b.lng

\* C29: after target.linearly_interpolate_alt(p1, p2) target's altitude lies
\* between p1.alt and p2.alt inclusive: it is p1.alt when target projects at
\* or before p1 on a leg with distinct ends, and p2.alt when it projects at or
\* beyond p2 or p1 and p2 have the same lat/lng; target's frame is p2's
\* decoded frame and its lat and lng are unchanged.
C29_InterpolatedAltBetweenEnds ==
    Interpolated
    => /\ \/ interp_call.p1.alt <= loc.alt /\ loc.alt <= interp_call.p2.alt
          \/ interp_call.p2.alt <= loc.alt /\ loc.alt <= interp_call.p1.alt
       /\ (~SameLatLng(interp_call.p1, interp_call.p2) /\ interp_call.t <= 0)
              => loc.alt = interp_call.p1.alt
       /\ (SameLatLng(interp_call.p1, interp_call.p2) \/ interp_call.t >= 10000)
              => loc.alt = interp_call.p2.alt
       /\ get_alt_frame(loc) = get_alt_frame(interp_call.p2)
       /\ SameLatLng(loc, interp_call.before)

C29_Witness ==
    /\ Interpolated
    /\ get_alt_frame(interp_call.before) = "ABSOLUTE"
    /\ get_alt_frame(interp_call.p1) = "ABOVE_HOME"
    /\ get_alt_frame(interp_call.p2) = "ABOVE_TERRAIN"
    /\ 0 < interp_call.t /\ interp_call.t < 10000
    /\ interp_call.p1.alt < loc.alt /\ loc.alt < interp_call.p2.alt
    /\ get_alt_frame(loc) = "ABOVE_TERRAIN"

====
